---- MODULE Spec2Model ----
(***************************************************************************)
(* Model of the two Ansible modules karaf_feature.py and karaf_repo.py.    *)
(*                                                                         *)
(* One pass of a module is a sequential program: main() resolves the       *)
(* client path, builds the command prefix, runs the listing query, and     *)
(* then possibly one mutating command followed by a verification query.    *)
(* Every module.run_command() call is one step of the model; the exit      *)
(* code and the output of the command are chosen by the environment.       *)
(*                                                                         *)
(* Text is a sequence of atoms.  An atom stands for a run of characters    *)
(* that the programs never look inside (a word, a version number, a url),  *)
(* or for one of the characters they do look at: the blank, the newline,   *)
(* and the version separators "-", "_" and ".".  The string operators      *)
(* below (split, strip, index, replace, in) work on atoms the way the      *)
(* Python ones work on characters.                                         *)
(***************************************************************************)
EXTENDS Integers, Sequences, FiniteSets, TLC

\* ------------------------------------------------------------------ bounds

\* The largest number of lines of a listing output.
MaxLines == 2

\* ------------------------------------------------------------------ text

SP == " "
NL == "\n"
Whitespace == {SP, NL, "\t"}

\* A Python value that may be None.
None == [isNone |-> TRUE, val |-> <<>>]
Some(s) == [isNone |-> FALSE, val |-> s]

\* Python truthiness of an optional string: None and '' are false.
Truthy(o) == ~o.isNone /\ o.val # <<>>

\* The pieces of s between the atoms of seps, empty pieces included.
RECURSIVE SplitRaw(_, _)
SplitRaw(s, seps) ==
  IF \A i \in 1..Len(s) : s[i] \notin seps
  THEN <<s>>
  ELSE LET k == CHOOSE i \in 1..Len(s) :
                  /\ s[i] \in seps
                  /\ \A j \in 1..(i - 1) : s[j] \notin seps
       IN  <<SubSeq(s, 1, k - 1)>> \o SplitRaw(SubSeq(s, k + 1, Len(s)), seps)

\* str.split(sep) with a one-character separator.
split_on(s, sep) == SplitRaw(s, {sep})

NonEmpty(f) == f # <<>>

\* str.split(): the fields between runs of whitespace; no field is empty.
split(s) == SelectSeq(SplitRaw(s, Whitespace), NonEmpty)

\* str.strip(): leading and trailing whitespace removed.
strip(s) ==
  IF \A i \in 1..Len(s) : s[i] \in Whitespace
  THEN <<>>
  ELSE LET a == CHOOSE i \in 1..Len(s) :
                  s[i] \notin Whitespace /\ \A j \in 1..(i - 1) : s[j] \in Whitespace
           b == CHOOSE i \in 1..Len(s) :
                  s[i] \notin Whitespace /\ \A j \in (i + 1)..Len(s) : s[j] \in Whitespace
       IN  SubSeq(s, a, b)

\* str.replace(a, b) for one-character a and b.
replace(s, a, b) == [i \in 1..Len(s) |-> IF s[i] = a THEN b ELSE s[i]]

\* The positions (1-based) at which sub occurs in s.
Occurrences(s, sub) ==
  {i \in 1..(Len(s) - Len(sub) + 1) : SubSeq(s, i, i + Len(sub) - 1) = sub}

\* sub in s
contains(s, sub) == Occurrences(s, sub) # {}

\* str.index(sub), 1-based; 0 stands for the ValueError of a missing sub.
index(s, sub) ==
  IF Occurrences(s, sub) = {} THEN 0
  ELSE CHOOSE i \in Occurrences(s, sub) : \A j \in Occurrences(s, sub) : i <= j

\* Lines joined by newlines.
RECURSIVE JoinLines(_)
JoinLines(ls) ==
  IF ls = <<>> THEN <<>>
  ELSE IF Len(ls) = 1 THEN ls[1]
  ELSE ls[1] \o <<NL>> \o JoinLines(Tail(ls))

\* ------------------------------------------------------------------ constants of the source

FEATURE_STATE_UNINSTALLED == <<"Uninstalled">>

ReasonMarker == <<"reason:", SP>>
ErrorExecuting == <<"Error", SP, "executing", SP, "command">>
CommandNotFound == <<"Command", SP, "not", SP, "found">>

\* PACKAGE_STATE_MAP of karaf_feature.py
FEATURE_STATE_MAP == [present |-> <<"install">>, absent |-> <<"uninstall">>]
\* PACKAGE_STATE_MAP of karaf_repo.py
REPO_STATE_MAP ==
  [present |-> <<"repo-add">>, absent |-> <<"repo-remove">>, refresh |-> <<"repo-refresh">>]

\* "{0}".format(x): None prints as the word None.
Format(o) == IF o.isNone THEN <<"None">> ELSE o.val

\* CLIENT_KARAF_COMMAND.format(bin, sub)
CLIENT_KARAF_COMMAND(bin, sub) == Format(bin) \o <<SP, "'feature:">> \o sub \o <<"'">>

\* CLIENT_KARAF_COMMAND_WITH_ARGS.format(bin, sub, arg)
CLIENT_KARAF_COMMAND_WITH_ARGS(bin, sub, arg) ==
  Format(bin) \o <<SP, "'feature:">> \o sub \o <<SP>> \o arg \o <<"'">>

\* '%s "feature:repo-list --no-format"' % (bin,)
REPO_LIST_COMMAND(bin) ==
  Format(bin) \o <<SP, "\"feature:", "repo-list", SP, "--no-format", "\"">>

FEATURE_LIST_SUB == <<"list", SP, "-i", SP, "--no-format">>

\* ------------------------------------------------------------------ pure functions

\* parse_error(string): the text after the first "reason: ", stripped; the
\* string itself when there is none.
parse_error_StripAlways(string) ==
  IF index(string, ReasonMarker) = 0
  THEN strip(string)
  ELSE strip(SubSeq(string, index(string, ReasonMarker) + Len(ReasonMarker), Len(string)))

parse_error(string) ==
  IF index(string, ReasonMarker) = 0
  THEN string
  ELSE strip(SubSeq(string, index(string, ReasonMarker) + Len(ReasonMarker), Len(string)))

\* ScanFeatureLines that compares the listed version as it is printed.
RECURSIVE ScanFeatureLines_RawVersion(_, _, _, _)
ScanFeatureLines_RawVersion(lines, i, feature_name, feature_version) ==
  IF i > Len(lines) THEN FALSE
  ELSE LET feature_data == split(lines[i]) IN
       IF Len(feature_data) < 4
       THEN ScanFeatureLines_RawVersion(lines, i + 1, feature_name, feature_version)
       ELSE IF /\ strip(feature_data[1]) = feature_name
               /\ strip(feature_data[4]) # FEATURE_STATE_UNINSTALLED
               /\ \/ feature_version = <<>>
                  \/ strip(feature_data[2]) = feature_version
            THEN TRUE
            ELSE ScanFeatureLines_RawVersion(lines, i + 1, feature_name, feature_version)

\* ScanFeatureLines that answers at the first record of the name.
RECURSIVE ScanFeatureLines_FirstOfName(_, _, _, _)
ScanFeatureLines_FirstOfName(lines, i, feature_name, feature_version) ==
  IF i > Len(lines) THEN FALSE
  ELSE LET feature_data == split(lines[i]) IN
       IF Len(feature_data) < 4 \/ strip(feature_data[1]) # feature_name
       THEN ScanFeatureLines_FirstOfName(lines, i + 1, feature_name, feature_version)
       ELSE /\ strip(feature_data[4]) # FEATURE_STATE_UNINSTALLED
            /\ \/ feature_version = <<>>
               \/ replace(strip(feature_data[2]), "_", ".") = feature_version

\* The loop of is_feature_installed over the lines from line i on:
\* feature_version is the wanted version with "-" already replaced by ".".
RECURSIVE ScanFeatureLines(_, _, _, _)
ScanFeatureLines(lines, i, feature_name, feature_version) ==
  IF i > Len(lines) THEN FALSE
  ELSE LET feature_data == split(lines[i]) IN
       IF Len(feature_data) < 4
       THEN ScanFeatureLines(lines, i + 1, feature_name, feature_version)
       ELSE LET name == strip(feature_data[1])
                version == strip(feature_data[2])
                state == strip(feature_data[4])
            IN  IF name # feature_name
                THEN ScanFeatureLines(lines, i + 1, feature_name, feature_version)
                ELSE IF /\ state # FEATURE_STATE_UNINSTALLED
                        /\ \/ feature_version = <<>>
                           \/ replace(version, "_", ".") = feature_version
                     THEN TRUE
                     ELSE ScanFeatureLines(lines, i + 1, feature_name, feature_version)

\* ReadFeatureLines that takes the last field of a line as the state.
RECURSIVE ReadFeatureLines_LastField(_, _, _, _)
ReadFeatureLines_LastField(lines, i, feature_name, feature_version) ==
  IF i > Len(lines) THEN <<>>
  ELSE LET feature_data == split(lines[i]) IN
       IF Len(feature_data) < 4
       THEN ReadFeatureLines_LastField(lines, i + 1, feature_name, feature_version)
       ELSE LET record == [name |-> strip(feature_data[1]),
                           version |-> strip(feature_data[2]),
                           state |-> strip(feature_data[Len(feature_data)])]
            IN  IF ScanFeatureLines(<<lines[i]>>, 1, feature_name, feature_version)
                THEN <<record>>
                ELSE <<record>> \o ReadFeatureLines_LastField(lines, i + 1, feature_name,
                                                              feature_version)

\* The name, version and state the loop of is_feature_installed assigns, line
\* after line from line i on, up to the line at which it returns.
RECURSIVE ReadFeatureLines(_, _, _, _)
ReadFeatureLines(lines, i, feature_name, feature_version) ==
  IF i > Len(lines) THEN <<>>
  ELSE LET feature_data == split(lines[i]) IN
       IF Len(feature_data) < 4
       THEN ReadFeatureLines(lines, i + 1, feature_name, feature_version)
       ELSE LET record == [name |-> strip(feature_data[1]),
                           version |-> strip(feature_data[2]),
                           state |-> strip(feature_data[4])]
            IN  IF ScanFeatureLines(<<lines[i]>>, 1, feature_name, feature_version)
                THEN <<record>>
                ELSE <<record>> \o ReadFeatureLines(lines, i + 1, feature_name,
                                                    feature_version)

\* The records is_feature_installed reads from the output of the listing command.
FeatureRecordsRead(out, feature_name, feature_version) ==
  ReadFeatureLines(split_on(out, NL), 1, feature_name,
                   replace(IF Truthy(feature_version) THEN feature_version.val ELSE <<>>,
                           "-", "."))

\* What is_feature_installed computes from the output of the listing command.
\* The exit code of the command is not looked at.
FeatureInstalledIn(out, feature_name, feature_version) ==
  ScanFeatureLines(split_on(out, NL), 1, feature_name,
                   replace(IF Truthy(feature_version) THEN feature_version.val ELSE <<>>,
                           "-", "."))

\* RepoKeysIn that takes every line of 2 fields or more.
RepoKeysIn_AtLeastTwo(out) ==
  LET lines == split_on(out, NL)
  IN  {strip(split(lines[i])[2]) : i \in {j \in 1..Len(lines) : Len(split(lines[j])) >= 2}}

\* The keys of the mapping get_existing_repos builds from the listing output.
RepoKeysIn(out) ==
  LET lines == split_on(out, NL)
  IN  {strip(split(lines[i])[2]) : i \in {j \in 1..Len(lines) : Len(split(lines[j])) = 2}}

\* run_with_check's test of a command's result.
CheckFails(rc, out) ==
  rc # 0 \/ contains(out, ErrorExecuting) \/ contains(out, CommandNotFound)


\* ------------------------------------------------------------------ the file system

\* os.path.join(client_bin, 'bin/client')
PathJoin(dir, rel) == dir \o <<"/">> \o rel

KarafHome == <<"/opt/karaf">>
EmptyDir == <<"/opt/empty">>
MissingPath == <<"/nonexistent">>
ClientFile == PathJoin(KarafHome, <<"bin/client">>)

Files == {ClientFile}
Dirs == {KarafHome, EmptyDir}

isfile(p) == p \in Files
isdir(p) == p \in Dirs

\* check_client_bin_path: raised is the Exception of the last branch; a
\* directory without bin/client falls off the end of the function, which
\* returns None.
check_client_bin_path(p) ==
  IF isfile(p) THEN [raised |-> FALSE, value |-> Some(p)]
  ELSE IF isdir(p)
       THEN IF isfile(PathJoin(p, <<"bin/client">>))
            THEN [raised |-> FALSE, value |-> Some(PathJoin(p, <<"bin/client">>))]
            ELSE [raised |-> FALSE, value |-> None]
       ELSE [raised |-> TRUE, value |-> None]

\* client_bin_with_args + " -x " + value, run only when the option is not
\* None; adding a string to None raises a TypeError.
AddOption(acc, flag, o) ==
  IF acc.raised \/ o.isNone THEN acc
  ELSE IF acc.value.isNone THEN [raised |-> TRUE, value |-> None]
  ELSE [raised |-> FALSE, value |-> Some(acc.value.val \o <<SP, flag, SP>> \o o.val)]

\* BuildClientBinWithArgs that adds the port before the host.
BuildClientBinWithArgs_PortFirst(p, o) ==
  AddOption(AddOption(AddOption(AddOption(AddOption(AddOption(
    check_client_bin_path(p),
      "-a", o.port), "-h", o.host), "-u", o.user), "-p", o.password),
      "-d", o.delay), "-r", o.retry)

\* main's command prefix: the resolved client path and the options that are
\* not None, in the order of the source.
BuildClientBinWithArgs(p, o) ==
  AddOption(AddOption(AddOption(AddOption(AddOption(AddOption(
    check_client_bin_path(p),
      "-h", o.host), "-a", o.port), "-u", o.user), "-p", o.password),
      "-d", o.delay), "-r", o.retry)

\* ------------------------------------------------------------------ inputs

FeatureName == <<"camel-jms">>
RepoUrl == <<"mvn:x/1.0/xml/features">>
OtherUrl == <<"mvn:y/2.0/xml/features">>

SnapshotVersion == <<"2.18.1", "-", "SNAPSHOT">>

Versions == {None, Some(SnapshotVersion)}

NoOptions ==
  [host |-> None, port |-> None, user |-> None, password |-> None,
   delay |-> None, retry |-> None]
AllOptions ==
  [host |-> Some(<<"karaf1">>), port |-> Some(<<"8101">>), user |-> Some(<<"karaf">>),
   password |-> Some(<<"secret">>), delay |-> Some(<<"2">>), retry |-> Some(<<"3">>)]
\* The client_bin and the connection options a pass is started with.
Invocations ==
  { <<ClientFile, NoOptions>>, <<KarafHome, AllOptions>>,
    <<EmptyDir, NoOptions>>, <<EmptyDir, AllOptions>>,
    <<MissingPath, NoOptions>> }

ExitCodes == {0, 1}

FeatureErrorLine == <<"Error", SP, "executing", SP, "command", ":", SP, "x", SP, "reason:", SP, SP,
                "disk", SP, "full", SP>>

\* Lines a feature listing is made of.
FeatureLines ==
  { <<"camel-jms", SP, "2.18.1", "_", "SNAPSHOT", SP, "x", SP, "Started", SP, "camel-repo">>,
    <<"camel-jms", SP, SP, "2.18.1", SP, "x", SP, "Installed">>,
    <<"camel-jms", SP, "2.18.1", ".", "SNAPSHOT", SP, "x", SP, "Uninstalled">>,
    FeatureErrorLine }

\* Lines a repository listing is made of.
RepoLines ==
  { <<"camel-repo", SP, SP>> \o RepoUrl,
    <<"other-repo", SP>> \o OtherUrl,
    <<"camel-repo", SP>> \o RepoUrl \o <<SP, "extra">>,
    CommandNotFound \o <<":", SP, "reason:", SP, "no", SP, "console", SP>> }

SeqsUpTo(S, n) == UNION {[1..k -> S] : k \in 0..n}

\* The outputs a listing command may print.
ListingOutputs(k) ==
  {JoinLines(ls) : ls \in SeqsUpTo(IF k = "feature" THEN FeatureLines ELSE RepoLines, MaxLines)}

\* The outputs a mutating command may print.
MutatingOutputs ==
  { <<>>,
    <<"x", SP, "reason:", SP, SP, "disk", SP, "full", SP, NL>>,
    ErrorExecuting \o <<":", SP, "boom", NL>>,
    CommandNotFound \o <<":", SP, "reason:", SP, "no", SP, "console">> }

StderrOutputs == {<<"warning">>}

\* ------------------------------------------------------------------ state

VARIABLES
  kind,                 \* which module runs: "feature" or "repo"
  state,                \* module.params["state"]
  name,                 \* module.params["name"] (feature)
  version,              \* module.params["version"] (feature), may be None
  url,                  \* module.params["url"] (repo)
  client_bin,           \* module.params["client_bin"]
  options,              \* host, port, user, password, delay, retry
  client_bin_with_args, \* main's command prefix, may be None
  pc,                   \* the position in the pass
  pending,              \* cmd, out, err of the mutating command that has run
  log,                  \* every run_command and sleep so far, in order
  result,               \* what the pass reported: exit_json, fail_json or an exception
  fn,                   \* the function called on its own, "main" in a pass
  arg,                  \* the arguments of that call
  ret                   \* what the call returned

vars == <<kind, state, name, version, url, client_bin, options, client_bin_with_args,
          pc, pending, log, result, fn, arg, ret>>

\* What no step of a pass changes.
params == <<kind, state, name, version, url, client_bin, options, fn, arg, ret>>

\* The value of ret before the call has returned.
NotReturned == [returned |-> FALSE]

Running == [status |-> "running", changed |-> FALSE, cmd |-> <<>>, stdout |-> <<>>,
            stderr |-> <<>>, msg |-> <<>>]

\* module.exit_json(...)
exit_json(changed, cmd, out, err) ==
  [status |-> "exit_json", changed |-> changed, cmd |-> cmd, stdout |-> out,
   stderr |-> err, msg |-> <<>>]

\* module.fail_json(msg=...): the process exits.
fail_json(msg) ==
  [status |-> "fail_json", changed |-> FALSE, cmd |-> <<>>, stdout |-> <<>>,
   stderr |-> <<>>, msg |-> msg]

\* An exception nobody catches: the process dies with a traceback.
Uncaught ==
  [status |-> "exception", changed |-> FALSE, cmd |-> <<>>, stdout |-> <<>>,
   stderr |-> <<>>, msg |-> <<>>]

NoPending == [cmd |-> <<>>, out |-> <<>>, err |-> <<>>]

\* time.sleep(20) in remove_repo
SettleSeconds == 20

Ran(op, cmd, rc, out) == [op |-> op, cmd |-> cmd, rc |-> rc, out |-> out, secs |-> 0]
Slept(secs) == [op |-> "sleep", cmd |-> <<>>, rc |-> 0, out |-> <<>>, secs |-> secs]

Init ==
  /\ kind \in {"feature", "repo"}
  /\ state \in (IF kind = "feature" THEN {"present", "absent"}
                ELSE {"present", "absent", "refresh"})
  /\ name = (IF kind = "feature" THEN FeatureName ELSE <<>>)
  /\ version \in (IF kind = "feature" THEN Versions ELSE {None})
  /\ url = (IF kind = "repo" THEN RepoUrl ELSE <<>>)
  /\ \E i \in Invocations : client_bin = i[1] /\ options = i[2]
  /\ client_bin_with_args = None
  /\ pc = "start"
  /\ pending = NoPending
  /\ log = <<>>
  /\ result = Running
  /\ fn = "main"
  /\ arg = <<>>
  /\ ret = NotReturned


\* ------------------------------------------------------------------ both modules: main's start

\* main, from reading the parameters to the command prefix.  The Exception of
\* check_client_bin_path and the TypeError of None + " -h " are caught by
\* nobody.
main_start ==
  /\ pc = "start"
  /\ LET r == BuildClientBinWithArgs(client_bin, options) IN
       IF r.raised
       THEN /\ pc' = "end"
            /\ result' = Uncaught
            /\ UNCHANGED client_bin_with_args
       ELSE /\ pc' = "query"
            /\ client_bin_with_args' = r.value
            /\ UNCHANGED result
  /\ UNCHANGED <<params, pending, log>>

\* ------------------------------------------------------------------ karaf_feature.py

\* full_qualified_name that forgets the version.
full_qualified_name_NameOnly(feature_name, feature_version) == feature_name

\* name or name/version
full_qualified_name(feature_name, feature_version) ==
  IF Truthy(feature_version) THEN feature_name \o <<"/">> \o feature_version.val
  ELSE feature_name

FeatureListCmd(bin) == CLIENT_KARAF_COMMAND(bin, FEATURE_LIST_SUB)

InstallCmd(bin, feature_name, feature_version) ==
  CLIENT_KARAF_COMMAND_WITH_ARGS(bin, FEATURE_STATE_MAP["present"],
                                 full_qualified_name(feature_name, feature_version))

UninstallCmd(bin, feature_name, feature_version) ==
  CLIENT_KARAF_COMMAND_WITH_ARGS(bin, FEATURE_STATE_MAP["absent"],
                                 full_qualified_name(feature_name, feature_version))

\* FeatureDecision without the test of is_installed on the present branch.
FeatureDecision_InstallAnyway(st, is_installed) ==
  IF st = "present" THEN "install"
  ELSE IF st = "absent" /\ is_installed THEN "uninstall"
  ELSE "noop"

\* main's choice after the first is_feature_installed.
FeatureDecision(st, is_installed) ==
  IF st = "present" /\ ~is_installed THEN "install"
  ELSE IF st = "absent" /\ is_installed THEN "uninstall"
  ELSE "noop"

\* The test install_feature and uninstall_feature make of the command's result.
FeatureCommandFails(rc, out) == rc # 0

\* What install_feature expects of the second is_feature_installed.
InstallVerified(is_installed) == is_installed

\* UninstallVerified with install_feature's test.
UninstallVerified_AsInstall(is_installed) == is_installed

\* What uninstall_feature expects of the second is_feature_installed.
UninstallVerified(is_installed) == ~is_installed

MsgFailsToInstall == <<"Feature fails to install">>
MsgFailsToUninstall == <<"Feature fails to uninstall">>

\* main: the first is_feature_installed, and exit_json when nothing is to do.
feature_main_query ==
  /\ kind = "feature" /\ pc = "query"
  /\ \E rc \in ExitCodes, out \in ListingOutputs("feature") :
       LET d == FeatureDecision(state, FeatureInstalledIn(out, name, version)) IN
         /\ log' = Append(log, Ran("list", FeatureListCmd(client_bin_with_args), rc, out))
         /\ IF d = "noop"
            THEN pc' = "end" /\ result' = exit_json(FALSE, <<>>, <<>>, <<>>)
            ELSE pc' = d /\ UNCHANGED result
  /\ UNCHANGED <<params, client_bin_with_args, pending>>

\* install_feature up to its is_feature_installed.
install_feature_command ==
  /\ kind = "feature" /\ pc = "install"
  /\ \E rc \in ExitCodes, out \in MutatingOutputs, err \in StderrOutputs :
       LET cmd == InstallCmd(client_bin_with_args, name, version) IN
         /\ log' = Append(log, Ran("install", cmd, rc, out))
         /\ IF FeatureCommandFails(rc, out)
            THEN pc' = "end" /\ result' = fail_json(parse_error(out)) /\ UNCHANGED pending
            ELSE /\ pc' = "install_verify"
                 /\ pending' = [cmd |-> cmd, out |-> out, err |-> err]
                 /\ UNCHANGED result
  /\ UNCHANGED <<params, client_bin_with_args>>

\* install_feature from its is_feature_installed on, and main's exit_json.
install_feature_verify ==
  /\ kind = "feature" /\ pc = "install_verify"
  /\ \E rc \in ExitCodes, out \in ListingOutputs("feature") :
       /\ log' = Append(log, Ran("list", FeatureListCmd(client_bin_with_args), rc, out))
       /\ result' = IF InstallVerified(FeatureInstalledIn(out, name, version))
                    THEN exit_json(TRUE, pending.cmd, pending.out, pending.err)
                    ELSE fail_json(MsgFailsToInstall)
  /\ pc' = "end"
  /\ UNCHANGED <<params, client_bin_with_args, pending>>

\* uninstall_feature up to its is_feature_installed.
uninstall_feature_command ==
  /\ kind = "feature" /\ pc = "uninstall"
  /\ \E rc \in ExitCodes, out \in MutatingOutputs, err \in StderrOutputs :
       LET cmd == UninstallCmd(client_bin_with_args, name, version) IN
         /\ log' = Append(log, Ran("uninstall", cmd, rc, out))
         /\ IF FeatureCommandFails(rc, out)
            THEN pc' = "end" /\ result' = fail_json(parse_error(out)) /\ UNCHANGED pending
            ELSE /\ pc' = "uninstall_verify"
                 /\ pending' = [cmd |-> cmd, out |-> out, err |-> err]
                 /\ UNCHANGED result
  /\ UNCHANGED <<params, client_bin_with_args>>

\* uninstall_feature from its is_feature_installed on, and main's exit_json.
uninstall_feature_verify ==
  /\ kind = "feature" /\ pc = "uninstall_verify"
  /\ \E rc \in ExitCodes, out \in ListingOutputs("feature") :
       /\ log' = Append(log, Ran("list", FeatureListCmd(client_bin_with_args), rc, out))
       /\ result' = IF UninstallVerified(FeatureInstalledIn(out, name, version))
                    THEN exit_json(TRUE, pending.cmd, pending.out, pending.err)
                    ELSE fail_json(MsgFailsToUninstall)
  /\ pc' = "end"
  /\ UNCHANGED <<params, client_bin_with_args, pending>>

\* ------------------------------------------------------------------ karaf_repo.py

\* The message run_with_check fails with: the output as it is.
RunWithCheckReason(out) == out

RepoAddCmd(bin, repo_url) ==
  CLIENT_KARAF_COMMAND_WITH_ARGS(bin, REPO_STATE_MAP["present"], repo_url)
RepoRemoveCmd(bin, repo_url) ==
  CLIENT_KARAF_COMMAND_WITH_ARGS(bin, REPO_STATE_MAP["absent"], repo_url)
RepoRefreshCmd(bin, repo_url) ==
  CLIENT_KARAF_COMMAND_WITH_ARGS(bin, REPO_STATE_MAP["refresh"], repo_url)

\* RepoDecision without the test of the listing on the absent branch.
RepoDecision_RemoveAnyway(st, listed) ==
  IF st = "present" /\ ~listed THEN "repo-add"
  ELSE IF st = "absent" THEN "repo-remove"
  ELSE IF st = "refresh" THEN (IF ~listed THEN "not-available" ELSE "repo-refresh")
  ELSE "noop"

\* RepoDecision without the test of the listing on the refresh branch.
RepoDecision_RefreshAnyway(st, listed) ==
  IF st = "present" /\ ~listed THEN "repo-add"
  ELSE IF st = "absent" /\ listed THEN "repo-remove"
  ELSE IF st = "refresh" THEN "repo-refresh"
  ELSE "noop"

\* main's choice after the first get_existing_repos.
RepoDecision(st, listed) ==
  IF st = "present" /\ ~listed THEN "repo-add"
  ELSE IF st = "absent" /\ listed THEN "repo-remove"
  ELSE IF st = "refresh" THEN (IF ~listed THEN "not-available" ELSE "repo-refresh")
  ELSE "noop"

\* What add_repo expects of the second listing.
AddVerified(repo_url, repos) == repo_url \in repos

\* RemoveVerified with add_repo's test.
RemoveVerified_AsAdd(repo_url, repos) == repo_url \in repos

\* What remove_repo expects of the second listing.
RemoveVerified(repo_url, repos) == repo_url \notin repos

MsgDidNotInstall(repo_url) == <<"Repo (\"">> \o repo_url \o <<"\") did not install">>
MsgStillInstalled(repo_url) == <<"Repo (\"">> \o repo_url \o <<"\") is still installed">>
MsgNotAvailable(repo_url) ==
  <<"The given repository (\"">> \o repo_url
    \o <<"\") is not available and can therefore not be refreshed">>

\* main: the first get_existing_repos, and exit_json when nothing is to do.
repo_main_query ==
  /\ kind = "repo" /\ pc = "query"
  /\ \E rc \in ExitCodes, out \in ListingOutputs("repo") :
       /\ log' = Append(log, Ran("repo-list", REPO_LIST_COMMAND(client_bin_with_args), rc, out))
       /\ IF CheckFails(rc, out)
          THEN pc' = "end" /\ result' = fail_json(RunWithCheckReason(out))
          ELSE LET d == RepoDecision(state, url \in RepoKeysIn(out)) IN
                 IF d = "noop"
                 THEN pc' = "end" /\ result' = exit_json(FALSE, <<>>, <<>>, <<>>)
                 ELSE IF d = "not-available"
                 THEN pc' = "end" /\ result' = fail_json(MsgNotAvailable(url))
                 ELSE pc' = d /\ UNCHANGED result
  /\ UNCHANGED <<params, client_bin_with_args, pending>>

\* add_repo up to its get_existing_repos.
add_repo_command ==
  /\ kind = "repo" /\ pc = "repo-add"
  /\ \E rc \in ExitCodes, out \in MutatingOutputs :
       LET cmd == RepoAddCmd(client_bin_with_args, url) IN
         /\ log' = Append(log, Ran("repo-add", cmd, rc, out))
         /\ IF CheckFails(rc, out)
            THEN pc' = "end" /\ result' = fail_json(RunWithCheckReason(out))
                 /\ UNCHANGED pending
            ELSE /\ pc' = "repo-add_verify"
                 /\ pending' = [cmd |-> cmd, out |-> out, err |-> <<>>]
                 /\ UNCHANGED result
  /\ UNCHANGED <<params, client_bin_with_args>>

\* add_repo_verify that polls: it queries again while the url is not listed.
add_repo_verify_Poll ==
  /\ kind = "repo" /\ pc = "repo-add_verify"
  /\ \E rc \in ExitCodes, out \in ListingOutputs("repo") :
       /\ log' = Append(log, Ran("repo-list", REPO_LIST_COMMAND(client_bin_with_args), rc, out))
       /\ IF CheckFails(rc, out)
          THEN pc' = "end" /\ result' = fail_json(RunWithCheckReason(out))
          ELSE IF AddVerified(url, RepoKeysIn(out))
          THEN pc' = "end" /\ result' = exit_json(TRUE, pending.cmd, pending.out, <<>>)
          ELSE pc' = "repo-add_verify" /\ UNCHANGED result
  /\ UNCHANGED <<params, client_bin_with_args, pending>>

\* add_repo from its get_existing_repos on, and main's exit_json.
add_repo_verify ==
  /\ kind = "repo" /\ pc = "repo-add_verify"
  /\ \E rc \in ExitCodes, out \in ListingOutputs("repo") :
       /\ log' = Append(log, Ran("repo-list", REPO_LIST_COMMAND(client_bin_with_args), rc, out))
       /\ result' = IF CheckFails(rc, out) THEN fail_json(RunWithCheckReason(out))
                    ELSE IF AddVerified(url, RepoKeysIn(out))
                    THEN exit_json(TRUE, pending.cmd, pending.out, <<>>)
                    ELSE fail_json(MsgDidNotInstall(url))
  /\ pc' = "end"
  /\ UNCHANGED <<params, client_bin_with_args, pending>>

\* remove_repo_command without the sleep.
remove_repo_command_NoSleep ==
  /\ kind = "repo" /\ pc = "repo-remove"
  /\ \E rc \in ExitCodes, out \in MutatingOutputs :
       LET cmd == RepoRemoveCmd(client_bin_with_args, url) IN
         /\ log' = Append(log, Ran("repo-remove", cmd, rc, out))
         /\ IF CheckFails(rc, out)
            THEN /\ pc' = "end" /\ result' = fail_json(RunWithCheckReason(out))
                 /\ UNCHANGED pending
            ELSE /\ pc' = "repo-remove_verify"
                 /\ pending' = [cmd |-> cmd, out |-> out, err |-> <<>>]
                 /\ UNCHANGED result
  /\ UNCHANGED <<params, client_bin_with_args>>

\* remove_repo up to its get_existing_repos: the command, then the sleep.
remove_repo_command ==
  /\ kind = "repo" /\ pc = "repo-remove"
  /\ \E rc \in ExitCodes, out \in MutatingOutputs :
       LET cmd == RepoRemoveCmd(client_bin_with_args, url) IN
         IF CheckFails(rc, out)
         THEN /\ log' = Append(log, Ran("repo-remove", cmd, rc, out))
              /\ pc' = "end" /\ result' = fail_json(RunWithCheckReason(out))
              /\ UNCHANGED pending
         ELSE /\ log' = log \o <<Ran("repo-remove", cmd, rc, out), Slept(SettleSeconds)>>
              /\ pc' = "repo-remove_verify"
              /\ pending' = [cmd |-> cmd, out |-> out, err |-> <<>>]
              /\ UNCHANGED result
  /\ UNCHANGED <<params, client_bin_with_args>>

\* remove_repo from its get_existing_repos on, and main's exit_json.
remove_repo_verify ==
  /\ kind = "repo" /\ pc = "repo-remove_verify"
  /\ \E rc \in ExitCodes, out \in ListingOutputs("repo") :
       /\ log' = Append(log, Ran("repo-list", REPO_LIST_COMMAND(client_bin_with_args), rc, out))
       /\ result' = IF CheckFails(rc, out) THEN fail_json(RunWithCheckReason(out))
                    ELSE IF RemoveVerified(url, RepoKeysIn(out))
                    THEN exit_json(TRUE, pending.cmd, pending.out, <<>>)
                    ELSE fail_json(MsgStillInstalled(url))
  /\ pc' = "end"
  /\ UNCHANGED <<params, client_bin_with_args, pending>>

\* refresh_repo, and main's exit_json.
refresh_repo_command ==
  /\ kind = "repo" /\ pc = "repo-refresh"
  /\ \E rc \in ExitCodes, out \in MutatingOutputs :
       LET cmd == RepoRefreshCmd(client_bin_with_args, url) IN
         /\ log' = Append(log, Ran("repo-refresh", cmd, rc, out))
         /\ result' = IF CheckFails(rc, out) THEN fail_json(RunWithCheckReason(out))
                      ELSE exit_json(TRUE, cmd, out, <<>>)
  /\ pc' = "end"
  /\ UNCHANGED <<params, client_bin_with_args, pending>>

\* ------------------------------------------------------------------ specification

Next ==
  \/ main_start
  \/ feature_main_query
  \/ install_feature_command
  \/ install_feature_verify
  \/ uninstall_feature_command
  \/ uninstall_feature_verify
  \/ repo_main_query
  \/ add_repo_command
  \/ add_repo_verify
  \/ remove_repo_command
  \/ remove_repo_verify
  \/ refresh_repo_command

Spec == Init /\ [][Next]_vars


\* ------------------------------------------------------------------ vocabulary of the claims

Ended == pc = "end"
Succeeded == result.status = "exit_json"
Failed == result.status = "fail_json"
Fatal == result.status \in {"fail_json", "exception"}

ListingOps == {"list", "repo-list"}
MutatingOps == {"install", "uninstall", "repo-add", "repo-remove", "repo-refresh"}

IsCommand(e) == e.op # "sleep"
IsMutating(e) == e.op \in MutatingOps
IsListing(e) == e.op \in ListingOps

\* The commands run so far, in order.
Commands == SelectSeq(log, IsCommand)
MutatingCommands == SelectSeq(log, IsMutating)

\* A transport error as the specification defines it: a non-zero exit code or
\* one of the two error markers in the output.
TransportError(e) ==
  \/ e.rc # 0
  \/ \E i \in 1..(Len(e.out) - 4) :
       SubSeq(e.out, i, i + 4) \in { <<"Error", SP, "executing", SP, "command">>,
                                     <<"Command", SP, "not", SP, "found">> }

\* The fields of every line of a listing output.
FieldsOfLines(out) == {split(l) : l \in {split_on(out, NL)[i] : i \in 1..Len(split_on(out, NL))}}

\* A listing shows the feature installed: some line of at least 4 fields has
\* the name, a state other than Uninstalled, and, when a version is wanted,
\* the wanted version once "_" and "-" are both read as ".".
ListedInstalled(out, n, v) ==
  \E f \in FieldsOfLines(out) :
    /\ Len(f) >= 4
    /\ f[1] = n
    /\ f[4] # <<"Uninstalled">>
    /\ (~v.isNone /\ v.val # <<>>) => replace(f[2], "_", ".") = replace(v.val, "-", ".")

\* A listing has the url as a key: some line of exactly 2 fields ends in it.
ListedRepo(out, u) == \E f \in FieldsOfLines(out) : Len(f) = 2 /\ f[2] = u

\* The first command of the pass has run and reports the resource installed.
InitialReportsInstalled ==
  /\ Len(Commands) >= 1
  /\ IF kind = "feature"
     THEN ListedInstalled(Commands[1].out, name, version)
     ELSE ~TransportError(Commands[1]) /\ ListedRepo(Commands[1].out, url)

\* The first command of the pass has run without a transport error and its
\* listing does not show the resource.
InitialShowsAbsent ==
  /\ Len(Commands) >= 1
  /\ ~TransportError(Commands[1])
  /\ IF kind = "feature"
     THEN ~ListedInstalled(Commands[1].out, name, version)
     ELSE ~ListedRepo(Commands[1].out, url)

\* The pass ended in success, unchanged, after the listing query alone.
EndedUnchanged ==
  /\ Ended /\ Succeeded /\ result.changed = FALSE
  /\ Len(Commands) = 1 /\ IsListing(Commands[1])
  /\ MutatingCommands = <<>>

\* ------------------------------------------------------------------ C1

\* C1: for both kinds, when the desired state is present and the initial
\* listing query reports the resource installed, the pass ends in success
\* with changed = false and no mutating command has run.
C1_PresentIsIdempotent ==
  (state = "present" /\ InitialReportsInstalled) => EndedUnchanged

C1_Witness ==
  /\ kind = "feature" /\ state = "present" /\ ~version.isNone
  /\ InitialReportsInstalled /\ Ended

\* ------------------------------------------------------------------ C2

\* C2: for both kinds, when the desired state is absent and the listing shows
\* the resource absent, the pass ends in success with changed = false and no
\* uninstall or repo-remove has run.
C2_AbsentIsIdempotent ==
  (state = "absent" /\ InitialShowsAbsent) => EndedUnchanged

C2_Witness ==
  /\ kind = "repo" /\ state = "absent"
  /\ InitialShowsAbsent /\ Ended
  /\ Commands[1].out # <<>>

\* ------------------------------------------------------------------ C3

\* C3: for both kinds and both queries, a listing command that returns a
\* non-zero exit code or prints an error marker ends the pass in a fatal
\* failure: it is the last command run and the pass has failed.
C3_FailedQueryIsFatal ==
  \A i \in 1..Len(Commands) :
    (IsListing(Commands[i]) /\ TransportError(Commands[i]))
      => (i = Len(Commands) /\ Ended /\ Fatal)

\* ------------------------------------------------------------------ C4

\* C4: a mutating command that returns a non-zero exit code or prints an
\* error marker ends the pass in Failed: no verification query follows it
\* and no success is reported.
C4_FailedCommandIsFatal ==
  \A i \in 1..Len(Commands) :
    (IsMutating(Commands[i]) /\ TransportError(Commands[i]))
      => (i = Len(Commands) /\ Ended /\ Failed)


\* ------------------------------------------------------------------ C5

\* The mutating command op has run second and exited with code zero.
FeatureCommandExitedZero(op) ==
  /\ kind = "feature"
  /\ Len(Commands) >= 2
  /\ Commands[2].op = op
  /\ Commands[2].rc = 0

\* The pass reported success with changed = true, the command and its output.
DoneChanged ==
  /\ Ended /\ Succeeded /\ result.changed = TRUE
  /\ result.cmd = Commands[2].cmd /\ result.stdout = Commands[2].out

\* C5: for features, after an install (uninstall) command that exits with
\* code zero, nothing is reported before the verification query; then the
\* pass ends Done with changed = true if the verification query shows the
\* feature installed (not installed), and otherwise ends Failed with the
\* message 'Feature fails to install' ('Feature fails to uninstall').
C5_FeatureVerification ==
  /\ FeatureCommandExitedZero("install") =>
       IF Len(Commands) = 2 THEN ~Ended /\ result.status = "running"
       ELSE IF ListedInstalled(Commands[3].out, name, version)
            THEN DoneChanged
            ELSE Ended /\ Failed /\ result.msg = <<"Feature fails to install">>
  /\ FeatureCommandExitedZero("uninstall") =>
       IF Len(Commands) = 2 THEN ~Ended /\ result.status = "running"
       ELSE IF ~ListedInstalled(Commands[3].out, name, version)
            THEN DoneChanged
            ELSE Ended /\ Failed /\ result.msg = <<"Feature fails to uninstall">>

C5_Witness ==
  /\ FeatureCommandExitedZero("uninstall")
  /\ Len(Commands) = 3
  /\ ListedInstalled(Commands[3].out, name, version)
  /\ Failed

\* ------------------------------------------------------------------ C6

\* The mutating command op has run second and passed run_with_check's test.
RepoCommandSucceeded(op) ==
  /\ kind = "repo"
  /\ Len(Commands) >= 2
  /\ Commands[2].op = op
  /\ ~TransportError(Commands[2])

RefreshQueried ==
  /\ kind = "repo" /\ state = "refresh"
  /\ Len(Commands) >= 1
  /\ ~TransportError(Commands[1])

\* C7: for a refresh, if the url is absent from the initial listing the pass
\* ends in a fatal failure with no mutating command; if the url is present
\* the next and last command is one repo-refresh, no listing query follows
\* it, and when the command succeeds the result has changed = true.
C7_Refresh ==
  RefreshQueried =>
    IF ~ListedRepo(Commands[1].out, url)
    THEN Ended /\ Fatal /\ Len(Commands) = 1
    ELSE \/ /\ Len(Commands) = 1
            /\ ~Ended /\ result.status = "running"
            /\ ENABLED refresh_repo_command
         \/ /\ Len(Commands) = 2
            /\ Commands[2].op = "repo-refresh"
            /\ log = Commands
            /\ Ended
            /\ IF TransportError(Commands[2]) THEN Failed ELSE DoneChanged

C7_Witness ==
  /\ RefreshQueried
  /\ ListedRepo(Commands[1].out, url)
  /\ Len(Commands) = 2
  /\ Succeeded /\ result.changed = TRUE

\* ------------------------------------------------------------------ C8

\* client_bin is an existing file, or a directory that holds bin/client.
ValidClientBin ==
  \/ client_bin \in Files
  \/ client_bin \in Dirs /\ (client_bin \o <<"/", "bin/client">>) \in Files

\* C8: with any other client_bin the pass ends in a fatal error before any
\* command is run.
C8_BadClientBinIsFatal ==
  ~ValidClientBin =>
    /\ Commands = <<>>
    /\ Ended => Fatal

\* ------------------------------------------------------------------ C9

\* The failures of a pass: a command with a transport error, a verification
\* query (third command) that does not show what the mutating command was
\* to bring about, and a refresh of a repository that is not listed.
VerificationShows(i) ==
  IF kind = "feature"
  THEN ListedInstalled(Commands[i].out, name, version) = (state = "present")
  ELSE ListedRepo(Commands[i].out, url) = (state = "present")

FailureAt(i) ==
  \/ TransportError(Commands[i])
  \/ i = 3 /\ ~VerificationShows(3)
  \/ i = 1 /\ kind = "repo" /\ state = "refresh" /\ ~ListedRepo(Commands[1].out, url)

\* C9: a failure is a hard stop: no command runs after it and no success is
\* reported; and success with changed = true is reported only after the
\* verification query showed the desired disposition (for refresh, after
\* the refresh command succeeded).
C9_FailureIsHardStop ==
  /\ \A i \in 1..Len(Commands) :
       FailureAt(i) => (i = Len(Commands) /\ Ended /\ ~Succeeded)
  /\ (Succeeded /\ result.changed = TRUE) =>
       IF state = "refresh"
       THEN Len(Commands) = 2 /\ ~TransportError(Commands[2])
       ELSE Len(Commands) = 3 /\ VerificationShows(3)

\* ------------------------------------------------------------------ C10

\* msg is what the claim says is reported for the output out: the text
\* after the marker 'reason: ', trimmed, when out holds the marker, and out
\* itself when it does not.
IsExtractedReason(msg, out) ==
  IF \E k \in 1..(Len(out) - 1) : SubSeq(out, k, k + 1) = <<"reason:", SP>>
  THEN \E k \in 1..(Len(out) - 1) :
         /\ SubSeq(out, k, k + 1) = <<"reason:", SP>>
         /\ \A j \in 1..(k - 1) : SubSeq(out, j, j + 1) # <<"reason:", SP>>
         /\ msg = strip(SubSeq(out, k + 2, Len(out)))
  ELSE msg = out

\* C10: for both kinds, when a pass fails on a transport error of its last
\* command, the one message reported is the extracted reason of that
\* command's output.
C10_MessageIsReason ==
  (Ended /\ Failed /\ Len(Commands) >= 1 /\ TransportError(Commands[Len(Commands)]))
    => IsExtractedReason(result.msg, Commands[Len(Commands)].out)

\* ------------------------------------------------------------------ C11

\* The installed records of the name n in a listing: the fields of the lines
\* of at least 4 fields with field 0 = n and field 3 other than Uninstalled.
InstalledRecords(out, n) ==
  {f \in FieldsOfLines(out) : Len(f) >= 4 /\ f[1] = n /\ f[4] # <<"Uninstalled">>}

\* A feature pass for present with a version, whose first listing shows the
\* name installed, and only at versions other than the wanted one.
InstalledAtOtherVersionsOnly ==
  /\ kind = "feature" /\ state = "present"
  /\ ~version.isNone /\ version.val # <<>>
  /\ Len(Commands) >= 1
  /\ InstalledRecords(Commands[1].out, name) # {}
  /\ \A f \in InstalledRecords(Commands[1].out, name) :
       replace(f[2], "_", ".") # replace(version.val, "-", ".")

\* The console statement of a command: its text from the quote on.
Statement(cmd) ==
  IF \E i \in 1..Len(cmd) : cmd[i] \in {"'feature:", "\"feature:"}
  THEN SubSeq(cmd, CHOOSE i \in 1..Len(cmd) : cmd[i] \in {"'feature:", "\"feature:"}, Len(cmd))
  ELSE <<>>

\* The second command is the install of name/version.
SecondIsInstallOfVersion ==
  /\ Commands[2].op = "install"
  /\ Statement(Commands[2].cmd)
       = <<"'feature:", "install", SP>> \o name \o <<"/">> \o version.val \o <<"'">>

\* C11 as claimed: in that case the pass runs exactly one install of
\* name/version, then the listing again, and ends with changed = true
\* exactly when the second listing shows the name installed at the version.
C11_AsClaimed ==
  (InstalledAtOtherVersionsOnly /\ Ended) =>
    /\ Len(Commands) = 3
    /\ SecondIsInstallOfVersion
    /\ Len(MutatingCommands) = 1
    /\ IsListing(Commands[3])
    /\ (Succeeded /\ result.changed = TRUE)
         <=> ListedInstalled(Commands[3].out, name, version)

\* C11 amended: in that case the pass does not end on the first listing; its
\* second command is the one install of name/version.  If the install exits
\* with a non-zero code the pass ends Failed without a second listing.  If
\* it exits with zero the listing is run again and the pass ends with
\* changed = true exactly when that listing shows the name installed at the
\* version, and ends Failed when it does not.
C11_InstallOtherVersion ==
  InstalledAtOtherVersionsOnly =>
    /\ Len(Commands) = 1 => (~Ended /\ ENABLED install_feature_command)
    /\ Len(Commands) >= 2 => SecondIsInstallOfVersion
    /\ Len(MutatingCommands) <= 1
    /\ Len(Commands) = 2 =>
         IF Commands[2].rc = 0
         THEN ~Ended /\ ENABLED install_feature_verify
         ELSE Ended /\ Failed
    /\ Len(Commands) >= 3 =>
         /\ Len(Commands) = 3 /\ IsListing(Commands[3]) /\ Commands[2].rc = 0
         /\ Ended
         /\ IF ListedInstalled(Commands[3].out, name, version)
            THEN Succeeded /\ result.changed = TRUE
            ELSE Failed

C11_Witness ==
  /\ InstalledAtOtherVersionsOnly
  /\ Len(Commands) = 3
  /\ ListedInstalled(Commands[3].out, name, version)
  /\ Succeeded /\ result.changed = TRUE

\* ------------------------------------------------------------------ C12

\* The positions of the settling waits in the log.
Sleeps == {i \in 1..Len(log) : log[i].op = "sleep"}

\* The order of the events around the wait: a wait comes only in a
\* repository pass for absent, right after a repo-remove that returned
\* successfully, lasts 20 seconds, and happens at most once; a successful
\* repo-remove is followed by the wait at once; and the listing that follows
\* a repo-remove comes right after the wait.
WaitOrder ==
  /\ \A i \in Sleeps :
       /\ kind = "repo" /\ state = "absent"
       /\ i >= 2
       /\ log[i - 1].op = "repo-remove" /\ ~TransportError(log[i - 1])
       /\ log[i].secs = 20
  /\ Cardinality(Sleeps) <= 1
  /\ \A i \in 1..Len(log) :
       (log[i].op = "repo-remove" /\ ~TransportError(log[i]))
         => (i + 1 \in Sleeps /\ (Len(log) = i + 1 => pc = "repo-remove_verify"))
  /\ \A i \in 1..Len(log) :
       (log[i].op = "repo-remove" /\ TransportError(log[i])) => i = Len(log)
  /\ \A i \in 2..Len(log) :
       (IsListing(log[i]) /\ \E j \in 1..(i - 1) : log[j].op = "repo-remove")
         => (i - 1 \in Sleeps /\ i = Len(log))

\* The listing run after the wait.
PostWaitListing == log[Len(log)]
HasPostWaitListing ==
  /\ Sleeps # {}
  /\ Len(log) >= 1
  /\ IsListing(log[Len(log)])
  /\ Len(log) - 1 \in Sleeps

C13_PassShape ==
  /\ Len(Commands) >= 1 => IsListing(Commands[1])
  /\ Len(MutatingCommands) <= 1
  /\ Len(Commands) >= 2 => IsMutating(Commands[2])
  /\ \A i \in 2..Len(Commands) : IsListing(Commands[i]) => i = 3
  /\ Len(Commands) <= 3
  /\ (Ended /\ Succeeded /\ result.changed = FALSE)
       => (Len(Commands) = 1 /\ MutatingCommands = <<>>)
  /\ (Ended /\ Succeeded /\ result.changed = TRUE) => Len(MutatingCommands) = 1
  /\ Ended <=> ~ENABLED Next
  /\ Ended <=> result.status # "running"

C13_Witness ==
  /\ Ended /\ Failed
  /\ Len(Commands) = 3
  /\ IsListing(Commands[1]) /\ Commands[2].op = "repo-add" /\ IsListing(Commands[3])
  /\ ~TransportError(Commands[3])

\* ------------------------------------------------------------------ functions called on their own

\* The largest number of lines of a listing given to a parsing function.
MaxParseLines == 3

\* Lines of a feature listing: a header, records of 4 and 5 fields at
\* several versions and states, a record of another feature, a line of 3
\* fields, a blank line.
ParseFeatureLines ==
  { <<"Name", SP, "Version">>,
    <<"camel-jms", SP, "2.18.1", ".", "SNAPSHOT", SP, "x", SP, "Started", SP, "camel-repo">>,
    <<"camel-jms", SP, "2.18.1", "_", "SNAPSHOT", SP, "x", SP, "Installed">>,
    <<"camel-jms", SP, SP, "2.18.1", SP, "x", "\t", "Installed", SP>>,
    <<"camel-jms", SP, "2.18.1", ".", "SNAPSHOT", SP, "x", SP, "Uninstalled">>,
    <<"camel-xml", SP, "2.18.1", ".", "SNAPSHOT", SP, "x", SP, "Installed">>,
    <<"camel-jms", SP, "2.18.1", ".", "SNAPSHOT", SP, "Installed">>,
    <<SP>> }

\* Versions asked for: none, the empty string, and versions written with
\* "-", without separator, and with "_".
ParseVersions ==
  { None, Some(<<>>), Some(SnapshotVersion), Some(<<"2.18.1">>),
    Some(<<"2.18.1", "_", "SNAPSHOT">>) }

\* The pass variables while a function is called on its own.
NoPass ==
  /\ kind = "feature" /\ state = "present"
  /\ name = <<>> /\ version = None /\ url = <<>>
  /\ client_bin = <<>> /\ options = NoOptions
  /\ client_bin_with_args = None
  /\ pc = "call"
  /\ pending = NoPending
  /\ log = <<>>
  /\ result = Running

passvars == <<kind, state, name, version, url, client_bin, options, client_bin_with_args,
              pc, pending, log, result>>

Called(f) == fn = f /\ ret.returned

\* is_feature_installed on a listing output, its run_command left out.
call_is_feature_installed ==
  /\ fn = "is_feature_installed" /\ ~ret.returned
  /\ ret' = [returned |-> TRUE,
             value |-> FeatureInstalledIn(JoinLines(arg.lines), arg.name, arg.version),
             read |-> FeatureRecordsRead(JoinLines(arg.lines), arg.name, arg.version)]
  /\ UNCHANGED <<passvars, fn, arg>>

InitIsFeatureInstalled ==
  /\ fn = "is_feature_installed"
  /\ arg \in [lines : SeqsUpTo(ParseFeatureLines, MaxParseLines),
              name : {FeatureName}, version : ParseVersions]

\* Lines of a repository listing: a header, the repository with one and with
\* several blanks around its fields, another repository, a url written in
\* capitals, lines of 3 fields and of 1 field, a console error.
ParseRepoLines ==
  { <<"Repository", SP, "URL">>,
    <<"camel-repo", SP>> \o RepoUrl,
    <<SP, "camel-repo", SP, "\t">> \o RepoUrl \o <<SP>>,
    <<"other-repo", SP>> \o OtherUrl,
    <<"camel-repo", SP, "MVN:X/1.0/XML/FEATURES">>,
    <<"camel-repo", SP>> \o RepoUrl \o <<SP, "extra">>,
    RepoUrl,
    CommandNotFound \o <<":", SP, "repo-list">> }

\* get_existing_repos on the result of its listing command: the keys of the
\* mapping, or the exception of run_with_check.
call_get_existing_repos ==
  /\ fn = "get_existing_repos" /\ ~ret.returned
  /\ ret' = IF CheckFails(arg.rc, JoinLines(arg.lines))
            THEN [returned |-> TRUE, raised |-> TRUE, value |-> {}]
            ELSE [returned |-> TRUE, raised |-> FALSE,
                  value |-> RepoKeysIn(JoinLines(arg.lines))]
  /\ UNCHANGED <<passvars, fn, arg>>

InitGetExistingRepos ==
  /\ fn = "get_existing_repos"
  /\ arg \in [rc : ExitCodes, lines : SeqsUpTo(ParseRepoLines, MaxParseLines)]

\* Outputs given to parse_error: what precedes the reason, the reason with
\* and without its marker, and what follows it.
ReasonPrefixes ==
  { <<>>, <<"Error", SP>>, <<SP, NL>>, <<"...", SP>>,
    <<"no", SP, "reason:", SP, "given", NL>> }
ReasonTexts ==
  { <<>>, <<"reason:", SP, "disk", SP, "full">>, <<"reason:", SP, SP, "disk", SP, "full">>,
    <<"reason:", "disk", SP, "full">> }
ReasonSuffixes ==
  { <<>>, <<SP, NL>>, <<SP, "...">>, <<NL, "at", SP, "line", SP, "1">> }

call_parse_error ==
  /\ fn = "parse_error" /\ ~ret.returned
  /\ ret' = [returned |-> TRUE, value |-> parse_error(arg.string)]
  /\ UNCHANGED <<passvars, fn, arg>>

InitParseError ==
  /\ fn = "parse_error"
  /\ arg \in {[string |-> a \o b \o c] :
                a \in ReasonPrefixes, b \in ReasonTexts, c \in ReasonSuffixes}

\* Every choice of the connection options that are given.
OptionSubsets ==
  [host : {None, Some(<<"karaf1">>)}, port : {None, Some(<<"8101">>)},
   user : {None, Some(<<"karaf">>)}, password : {None, Some(<<"secret">>)},
   delay : {None, Some(<<"2">>)}, retry : {None, Some(<<"3">>)}]

\* The command lines the functions of a pass format with the prefix bin: the
\* listing of main, the mutating command of the state asked for, and the
\* listing that follows it (none after a refresh).
PassCommands(k, st, bin, n, v, u) ==
  IF k = "feature"
  THEN [query |-> FeatureListCmd(bin),
        mutating |-> IF st = "present" THEN InstallCmd(bin, n, v) ELSE UninstallCmd(bin, n, v),
        verify |-> FeatureListCmd(bin)]
  ELSE [query |-> REPO_LIST_COMMAND(bin),
        mutating |-> IF st = "present" THEN RepoAddCmd(bin, u)
                     ELSE IF st = "absent" THEN RepoRemoveCmd(bin, u)
                     ELSE RepoRefreshCmd(bin, u),
        verify |-> IF st = "refresh" THEN <<>> ELSE REPO_LIST_COMMAND(bin)]

\* main's building of the prefix, and the command lines formatted with it.
call_main_commands ==
  /\ fn = "main_commands" /\ ~ret.returned
  /\ LET r == BuildClientBinWithArgs(arg.client_bin, arg.options) IN
       ret' = IF r.raised
              THEN [returned |-> TRUE, raised |-> TRUE]
              ELSE [returned |-> TRUE, raised |-> FALSE, prefix |-> r.value,
                    commands |-> PassCommands(arg.kind, arg.state, r.value,
                                              arg.name, arg.version, arg.url)]
  /\ UNCHANGED <<passvars, fn, arg>>

InitMainCommands ==
  /\ fn = "main_commands"
  /\ \E k \in {"feature", "repo"} :
       arg \in [kind : {k},
                state : IF k = "feature" THEN {"present", "absent"}
                        ELSE {"present", "absent", "refresh"},
                name : IF k = "feature" THEN {FeatureName} ELSE {<<>>},
                version : IF k = "feature" THEN Versions ELSE {None},
                url : IF k = "repo" THEN {RepoUrl} ELSE {<<>>},
                client_bin : {ClientFile, KarafHome, EmptyDir},
                options : OptionSubsets]

\* The outcome of one command as both handlers can meet it: the exit code,
\* the error marker printed if any, and for a listing whether it lists the
\* resource.
Outcomes ==
  [rc : ExitCodes, marker : {<<>>, ErrorExecuting, CommandNotFound}, shows : BOOLEAN]

\* The output of a listing command of kind k with the outcome o.
ListingOf(k, o) ==
  JoinLines((IF o.shows
             THEN << IF k = "feature"
                     THEN <<"camel-jms", SP, "2.18.1", SP, "x", SP, "Installed">>
                     ELSE <<"camel-repo", SP>> \o RepoUrl >>
             ELSE <<>>)
            \o (IF o.marker = <<>> THEN <<>> ELSE << o.marker \o <<":", SP, "boom">> >>))

\* The output of a mutating command with the outcome o.
MutatingOutputOf(o) == IF o.marker = <<>> THEN <<>> ELSE o.marker \o <<":", SP, "boom">>

\* How a pass ended and after how many commands.
Terminal(t, n) == [terminal |-> t, step |-> n]

\* The results (rc, out) of the three commands of a pass of kind k whose
\* outcomes are o.
ResultsOf(k, o) ==
  << [rc |-> o[1].rc, out |-> ListingOf(k, o[1])],
     [rc |-> o[2].rc, out |-> MutatingOutputOf(o[2])],
     [rc |-> o[3].rc, out |-> ListingOf(k, o[3])] >>

\* main of karaf_feature.py from its first is_feature_installed on, the
\* three commands having the results r[1], r[2], r[3].
feature_handler(st, n, v, r) ==
  LET d == FeatureDecision(st, FeatureInstalledIn(r[1].out, n, v))
      is_installed == FeatureInstalledIn(r[3].out, n, v)
  IN  IF d = "noop" THEN Terminal("NoOp", 1)
      ELSE IF FeatureCommandFails(r[2].rc, r[2].out) THEN Terminal("Failed", 2)
      ELSE IF d = "install"
           THEN (IF InstallVerified(is_installed) THEN Terminal("Done", 3)
                 ELSE Terminal("Failed", 3))
           ELSE (IF UninstallVerified(is_installed) THEN Terminal("Done", 3)
                 ELSE Terminal("Failed", 3))

\* main of karaf_repo.py from its first get_existing_repos on, for present
\* and absent, the three commands having the results r[1], r[2], r[3].
repo_handler(st, u, r) ==
  IF CheckFails(r[1].rc, r[1].out) THEN Terminal("Failed", 1)
  ELSE LET d == RepoDecision(st, u \in RepoKeysIn(r[1].out))
           repos == RepoKeysIn(r[3].out)
       IN  IF d = "noop" THEN Terminal("NoOp", 1)
           ELSE IF CheckFails(r[2].rc, r[2].out) THEN Terminal("Failed", 2)
           ELSE IF CheckFails(r[3].rc, r[3].out) THEN Terminal("Failed", 3)
           ELSE IF d = "repo-add"
                THEN (IF AddVerified(u, repos) THEN Terminal("Done", 3)
                      ELSE Terminal("Failed", 3))
                ELSE (IF RemoveVerified(u, repos) THEN Terminal("Done", 3)
                      ELSE Terminal("Failed", 3))

\* Both handlers on the same three outcomes.
call_handlers ==
  /\ fn = "handlers" /\ ~ret.returned
  /\ ret' = [returned |-> TRUE,
             feature |-> feature_handler(arg.state, FeatureName, None,
                                         ResultsOf("feature", arg.outcomes)),
             repo |-> repo_handler(arg.state, RepoUrl, ResultsOf("repo", arg.outcomes))]
  /\ UNCHANGED <<passvars, fn, arg>>

InitHandlers ==
  /\ fn = "handlers"
  /\ arg \in [state : {"present", "absent"},
              outcomes : {<<a, [b EXCEPT !.shows = FALSE], c>> :
                            a \in Outcomes, b \in Outcomes, c \in Outcomes}]

\* ------------------------------------------------------------------ C14

\* C14: is_feature_installed returns true exactly when some line of the
\* listing has at least 4 fields, field 0 equal to the name, field 3 other
\* than 'Uninstalled', and, when a non-empty version is supplied, field 1
\* with "_" replaced by "." equal to the version with "-" replaced by ".";
\* so '2.18.1-SNAPSHOT' matches a listed '2.18.1.SNAPSHOT', and without a
\* version any installed record of the name will do.
C14_IsFeatureInstalled ==
  Called("is_feature_installed") =>
    /\ ret.value = ListedInstalled(JoinLines(arg.lines), arg.name, arg.version)
    /\ ( /\ arg.version = Some(<<"2.18.1", "-", "SNAPSHOT">>)
         /\ \E i \in 1..Len(arg.lines) :
              arg.lines[i] = <<"camel-jms", SP, "2.18.1", ".", "SNAPSHOT", SP, "x", SP,
                               "Started", SP, "camel-repo">> )
         => ret.value = TRUE
    /\ ( /\ arg.version \in {None, Some(<<>>)}
         /\ InstalledRecords(JoinLines(arg.lines), arg.name) # {} )
         => ret.value = TRUE

C14_Witness ==
  /\ Called("is_feature_installed")
  /\ arg.version = Some(<<"2.18.1", "-", "SNAPSHOT">>)
  /\ arg.lines = << <<"Name", SP, "Version">>,
                    <<"camel-jms", SP, "2.18.1", "_", "SNAPSHOT", SP, "x", SP, "Installed">> >>
  /\ ret.value = TRUE

\* ------------------------------------------------------------------ C15

\* The lines of a listing output, and the fields of its i-th line.
LinesOf(out) == split_on(out, NL)
FieldsAt(out, i) == split(LinesOf(out)[i])

\* The numbers of the lines of at least 4 fields, in order.
RecordLines(out) ==
  SelectSeq([i \in 1..Len(LinesOf(out)) |-> i], LAMBDA i : Len(FieldsAt(out, i)) >= 4)

\* A record holds fields 0, 1 and 3 of a line and nothing else of it.
RecordOf(r, f) == r = [name |-> f[1], version |-> f[2], state |-> f[4]]

\* A record answers the question asked of is_feature_installed.
RecordMatches(r, n, v) ==
  /\ r.name = n
  /\ r.state # <<"Uninstalled">>
  /\ (~v.isNone /\ v.val # <<>>) => replace(r.version, "_", ".") = replace(v.val, "-", ".")

FieldsPrinted(out) == UNION {{f[i] : i \in 1..Len(f)} : f \in FieldsOfLines(out)}

\* C16: the mapping parsed from a repository listing has the key u exactly
\* when some line of the listing has exactly 2 fields and u as its field 1:
\* the urls are compared as they are printed, nothing is normalized.
C16_RepoListingKeys ==
  (Called("get_existing_repos") /\ ~ret.raised) =>
    LET out == JoinLines(arg.lines)
    IN  /\ \A u \in FieldsPrinted(out) \cup {RepoUrl, OtherUrl} :
             u \in ret.value <=> ListedRepo(out, u)
        /\ ret.value \subseteq FieldsPrinted(out)

C16_Witness ==
  /\ Called("get_existing_repos") /\ ~ret.raised
  /\ arg.lines = << <<"camel-repo", SP, "MVN:X/1.0/XML/FEATURES">>,
                    <<"camel-repo", SP>> \o RepoUrl \o <<SP, "extra">>,
                    <<"other-repo", SP>> \o OtherUrl >>
  /\ OtherUrl \in ret.value
  /\ RepoUrl \notin ret.value

\* ------------------------------------------------------------------ C17

DiskFull == <<"disk", SP, "full">>

\* The marker 'reason: ' stands at position k of s.
MarkerAt(s, k) == k + 1 <= Len(s) /\ SubSeq(s, k, k + 1) = <<"reason:", SP>>
HasMarker(s) == \E k \in 1..Len(s) : MarkerAt(s, k)

\* s reads '... reason: disk full ...'.
ReadsReasonDiskFull(s) ==
  \E k \in 1..Len(s) : k + 4 <= Len(s) /\ SubSeq(s, k, k + 4) = <<"reason:", SP>> \o DiskFull

\* s reads '... reason: disk full ...' where no marker comes earlier and
\* nothing but blanks follows.
ReasonIsDiskFullOnly(s) ==
  \E k \in 1..Len(s) :
    /\ k + 4 <= Len(s) /\ SubSeq(s, k, k + 4) = <<"reason:", SP>> \o DiskFull
    /\ \A j \in 1..(k - 1) : ~MarkerAt(s, j)
    /\ \A j \in (k + 5)..Len(s) : s[j] \in Whitespace

\* C17 as claimed: with the marker in the input the result is the text after
\* the marker without the blanks around it, so that '... reason: disk full ...'
\* gives 'disk full'; without the marker the result is the input as it is.
C17_AsClaimed ==
  Called("parse_error") =>
    /\ IsExtractedReason(ret.value, arg.string)
    /\ ReadsReasonDiskFull(arg.string) => ret.value = DiskFull
    /\ ~HasMarker(arg.string) => ret.value = arg.string

\* C17: with the marker in the input the result is all of the text after the
\* first marker without the blanks around it, so that '... reason: disk full ...'
\* gives 'disk full' exactly when no marker comes earlier and only blanks
\* follow 'disk full'; without the marker the result is the input as it is,
\* blanks included.
C17_ParseError ==
  Called("parse_error") =>
    /\ IsExtractedReason(ret.value, arg.string)
    /\ ReadsReasonDiskFull(arg.string)
         => (ret.value = DiskFull <=> ReasonIsDiskFullOnly(arg.string))
    /\ ~HasMarker(arg.string) => ret.value = arg.string

C17_Witness ==
  /\ Called("parse_error")
  /\ arg.string = <<"Error", SP, "reason:", SP, "disk", SP, "full", SP, "...">>
  /\ ret.value = <<"disk", SP, "full", SP, "...">>

\* ------------------------------------------------------------------ C18

\* The flags and the option names, in the order of the claim.
OptionOrder ==
  << <<"-h", "host">>, <<"-a", "port">>, <<"-u", "user">>, <<"-p", "password">>,
     <<"-d", "delay">>, <<"-r", "retry">> >>

\* ' <flag> <value>' for every option from the i-th on that is present.
RECURSIVE FlagsFrom(_, _)
FlagsFrom(o, i) ==
  IF i > Len(OptionOrder) THEN <<>>
  ELSE (IF o[OptionOrder[i][2]].isNone THEN <<>>
        ELSE <<SP, OptionOrder[i][1], SP>> \o o[OptionOrder[i][2]].val)
       \o FlagsFrom(o, i + 1)

\* The client path a valid client_bin resolves to.
ResolvedPath(p) == IF p \in Files THEN p ELSE p \o <<"/", "bin/client">>
Resolves(p) == ResolvedPath(p) \in Files

\* cmd is the prefix, a blank, and the one quoted token 'feature:<words>'.
IsPrefixedStatement(cmd, prefix, words) ==
  \/ cmd = prefix \o <<SP, "'feature:">> \o words \o <<"'">>
  \/ cmd = prefix \o <<SP, "\"feature:">> \o words \o <<"\"">>

\* The words of the listing and of the mutating command of a pass.
ListingWords(k) ==
  IF k = "feature" THEN <<"list", SP, "-i", SP, "--no-format">>
  ELSE <<"repo-list", SP, "--no-format">>
MutatingWords(k, st, n, v, u) ==
  IF k = "feature"
  THEN <<IF st = "present" THEN "install" ELSE "uninstall", SP>> \o n
         \o (IF v.isNone THEN <<>> ELSE <<"/">> \o v.val)
  ELSE <<IF st = "present" THEN "repo-add"
         ELSE IF st = "absent" THEN "repo-remove" ELSE "repo-refresh", SP>> \o u

\* C18: for every subset of the options host, port, user, password, delay
\* and retry that is given, the command prefix is the resolved client path
\* followed by ' <flag> <value>' for exactly the options given, in the order
\* -h, -a, -u, -p, -d, -r; the initial query, the mutating command and the
\* verification query of a pass are this one prefix followed by one quoted
\* token feature:<subcommand>[ <argument>].
C18_CommandBuilding ==
  /\ (Called("main_commands") /\ Resolves(arg.client_bin)) =>
       LET prefix == ResolvedPath(arg.client_bin) \o FlagsFrom(arg.options, 1)
       IN  /\ ~ret.raised
           /\ ret.prefix = Some(prefix)
           /\ IsPrefixedStatement(ret.commands.query, prefix, ListingWords(arg.kind))
           /\ IsPrefixedStatement(ret.commands.mutating, prefix,
                                  MutatingWords(arg.kind, arg.state, arg.name,
                                                arg.version, arg.url))
           /\ arg.state # "refresh" => ret.commands.verify = ret.commands.query
  /\ (fn = "main" /\ Resolves(client_bin)) =>
       \A i \in 1..Len(Commands) :
         /\ Commands[i].cmd
              = (IF IsListing(Commands[i])
                 THEN PassCommands(kind, state, client_bin_with_args, name, version, url).query
                 ELSE PassCommands(kind, state, client_bin_with_args, name, version,
                                   url).mutating)
         /\ client_bin_with_args
              = Some(ResolvedPath(client_bin) \o FlagsFrom(options, 1))

C18_Witness ==
  /\ Called("main_commands")
  /\ arg.client_bin = KarafHome
  /\ arg.options.host = None /\ arg.options.port # None /\ arg.options.user = None
  /\ arg.options.password = None /\ arg.options.delay # None /\ arg.options.retry # None
  /\ arg.kind = "repo" /\ arg.state = "absent"
  /\ ret.commands.verify
       = <<"/opt/karaf", "/", "bin/client", SP, "-a", SP, "8101", SP, "-d", SP, "2",
           SP, "-r", SP, "3", SP, "\"feature:", "repo-list", SP, "--no-format", "\"">>

\* ------------------------------------------------------------------ C19

\* C19: run on the same outcomes (exit code zero or not, error marker
\* printed or not) of the initial query, the mutating command and the
\* verification query, for present and for absent, the feature handler and
\* the repository handler end in the same kind of terminal state (NoOp, Done
\* or Failed) after the same number of commands.
C19_SameFailureModel ==
  Called("handlers") => ret.feature = ret.repo

\* The outcome has no transport error.
Clean(o) == o.rc = 0 /\ o.marker = <<>>

\* The handlers do agree as long as no command they run has a transport error.
HandlersAgreeWhenClean ==
  (Called("handlers") /\ \A i \in 1..ret.repo.step : Clean(arg.outcomes[i]))
    => ret.feature = ret.repo

\* The result of the i-th command of a pass, as the handlers are given it.
ResultOfCommand(i) ==
  IF i > Len(Commands) THEN [rc |-> 0, out |-> <<>>]
  ELSE [rc |-> Commands[i].rc, out |-> Commands[i].out]

\* How the pass ended and after how many commands.
PassTerminal ==
  Terminal(IF Failed THEN "Failed" ELSE IF result.changed THEN "Done" ELSE "NoOp",
           Len(Commands))

\* The handlers as functions end as the passes of Spec do on the same results.
HandlersAsPasses ==
  (fn = "main" /\ Ended /\ Len(Commands) >= 1 /\ state # "refresh") =>
    LET r == <<ResultOfCommand(1), ResultOfCommand(2), ResultOfCommand(3)>>
    IN  PassTerminal = IF kind = "feature" THEN feature_handler(state, name, version, r)
                       ELSE repo_handler(state, url, r)

\* ------------------------------------------------------------------ C20

\* The orders in which n lines can be printed.
LineOrders(n) == {p \in [1..n -> 1..n] : \A i, j \in 1..n : p[i] = p[j] => i = j}

\* is_feature_installed asked the question of arg about the lines ls.
InstalledIn(ls) == FeatureInstalledIn(JoinLines(ls), arg.name, arg.version)

\* The line alone does not answer the question of arg.
NotMatching(l) == ~InstalledIn(<<l>>)

\* C20: the result of is_feature_installed depends neither on the order of
\* the lines of the listing nor on lines printed twice nor on lines that do
\* not match: a record of the name with another version or Uninstalled does
\* not end the scan, so every permutation of the lines gives the same boolean.
C20_OrderIndependent ==
  Called("is_feature_installed") =>
    LET n == Len(arg.lines) IN
      /\ \A p \in LineOrders(n) : InstalledIn([i \in 1..n |-> arg.lines[p[i]]]) = ret.value
      /\ \A i \in 1..n :
           /\ InstalledIn(<<arg.lines[i]>> \o arg.lines) = ret.value
           /\ InstalledIn(Append(arg.lines, arg.lines[i])) = ret.value
      /\ \A l \in ParseFeatureLines :
           NotMatching(l) => /\ InstalledIn(<<l>> \o arg.lines) = ret.value
                             /\ InstalledIn(Append(arg.lines, l)) = ret.value
      /\ InstalledIn(SelectSeq(arg.lines, LAMBDA l : ~NotMatching(l))) = ret.value

C20_Witness ==
  /\ Called("is_feature_installed")
  /\ arg.version = Some(<<"2.18.1", "-", "SNAPSHOT">>)
  /\ arg.lines = << <<"camel-jms", SP, "2.18.1", ".", "SNAPSHOT", SP, "x", SP, "Uninstalled">>,
                    <<"camel-jms", SP, SP, "2.18.1", SP, "x", "\t", "Installed", SP>>,
                    <<"camel-jms", SP, "2.18.1", "_", "SNAPSHOT", SP, "x", SP, "Installed">> >>
  /\ ret.value = TRUE
  /\ Len(ret.read) = 3

\* ------------------------------------------------------------------ specification of the functions

InitFunctions ==
  /\ NoPass
  /\ ret = NotReturned
  /\ \/ InitIsFeatureInstalled
     \/ InitGetExistingRepos
     \/ InitParseError
     \/ InitMainCommands
     \/ InitHandlers

NextFunctions ==
  \/ call_is_feature_installed
  \/ call_get_existing_repos
  \/ call_parse_error
  \/ call_main_commands
  \/ call_handlers

SpecFunctions == InitFunctions /\ [][NextFunctions]_vars

====
